---------------------------- MODULE Spec2Model ----------------------------
(***************************************************************************)
(* Confidence intervals of correlation coefficients: corr() of             *)
(* src/correlation.py as a state machine.  One behaviour is one call of    *)
(* corr; the statistic function, the random source, the quantile function  *)
(* and the inverse normal CDF are the external capabilities it uses.       *)
(*                                                                         *)
(* Coefficients and p-values are integers in hundredths (80 is 0.80).      *)
(* alpha, ci and the quantile levels are binary64 values kept exactly as   *)
(* dyadic numbers [i |-> integer part, f |-> fraction].                    *)
(***************************************************************************)
EXTENDS Integers, Sequences, FiniteSets, TLC

---------------------------------------------------------------------------
(* Exact dyadic arithmetic and binary64 rounding.  The fraction of a       *)
(* dyadic number is a string of Limbs limbs of LimbBits bits each, most    *)
(* significant first; bit position p counts from 1 after the binary point. *)

\* bits per limb
LimbBits == 12
\* limbs of a fraction
Limbs == 6
\* significand width of a Python float (IEEE binary64)
Precision == 53

\* b ** e
RECURSIVE Pow(_, _)
Pow(b, e) == IF e = 0 THEN 1 ELSE b * Pow(b, e - 1)

Base == Pow(2, LimbBits)
FracBits == Limbs * LimbBits
LimbIx == 1..Limbs
ZeroFrac == [k \in LimbIx |-> 0]
Dy(i, f) == [i |-> i, f |-> f]
DyInt(n) == Dy(n, ZeroFrac)

\* lexicographic order of two fractions
FracLeq(f, g) ==
    \/ f = g
    \/ \E k \in LimbIx : /\ f[k] < g[k]
                         /\ \A j \in 1..(k - 1) : f[j] = g[j]
DyLeq(a, b) == a.i < b.i \/ (a.i = b.i /\ FracLeq(a.f, b.f))

\* the limb of bit position p and the weight of that bit in its limb
LimbOf(p) == ((p - 1) \div LimbBits) + 1
WeightOf(p) == Pow(2, LimbBits - 1 - ((p - 1) % LimbBits))
BitAt(f, p) == (f[LimbOf(p)] \div WeightOf(p)) % 2
\* 2^-p
BitDy(p) == Dy(0, [k \in LimbIx |-> IF k = LimbOf(p) THEN WeightOf(p) ELSE 0])

\* the bits of f at positions <= last, the rest cleared
Truncate(f, last) ==
    [k \in LimbIx |->
        LET keep == IF last <= (k - 1) * LimbBits THEN 0
                    ELSE IF last >= k * LimbBits THEN LimbBits
                    ELSE last - (k - 1) * LimbBits
            drop == Pow(2, LimbBits - keep)
        IN  (f[k] \div drop) * drop]

\* a + g for a fraction g, limb by limb with carry
RECURSIVE CarryOut(_, _, _)
CarryOut(f, g, k) ==
    IF k > Limbs THEN 0 ELSE (f[k] + g[k] + CarryOut(f, g, k + 1)) \div Base
DyAddFrac(a, g) ==
    Dy(a.i + CarryOut(a.f, g, 1),
       [k \in LimbIx |-> (a.f[k] + g[k] + CarryOut(a.f, g, k + 1)) % Base])

\* position of the leading 1 bit of a nonzero fraction
LeadBit(f) == CHOOSE p \in 1..FracBits :
                 /\ BitAt(f, p) = 1
                 /\ Truncate(f, p - 1) = ZeroFrac

\* round a value of [0, 1] to Precision significant bits, ties to even;
\* sticky says that the exact value has nonzero bits beyond FracBits
RoundDouble(a, sticky) ==
    IF a.i # 0 \/ a.f = ZeroFrac THEN a
    ELSE LET last == LeadBit(a.f) + Precision - 1
         IN  IF last >= FracBits THEN a
             ELSE LET guard == BitAt(a.f, last + 1)
                      rest  == sticky \/ Truncate(a.f, last + 1) # a.f
                      trunc == Dy(0, Truncate(a.f, last))
                  IN  IF guard = 1 /\ (rest \/ BitAt(a.f, last) = 1)
                      THEN DyAddFrac(trunc, BitDy(last).f)
                      ELSE trunc

\* long division: the remainder after k limbs of rem/d
RECURSIVE DivRem(_, _, _)
DivRem(rem, d, k) == IF k = 0 THEN rem ELSE (DivRem(rem, d, k - 1) * Base) % d
\* the binary64 value of the decimal literal n/d, 0 <= n <= d
Double(n, d) ==
    IF n = d THEN DyInt(1)
    ELSE RoundDouble(Dy(0, [k \in LimbIx |-> (DivRem(n, d, k - 1) * Base) \div d]),
                     DivRem(n, d, Limbs) # 0)

\* 1 - a exactly, for a in [0, 1]
OneMinusExact(a) ==
    IF a.i = 1 THEN DyInt(0)
    ELSE IF a.f = ZeroFrac THEN DyInt(1)
    ELSE DyAddFrac(Dy(0, [k \in LimbIx |-> Base - 1 - a.f[k]]), BitDy(FracBits).f)
\* the float subtraction 1 - a
OneMinus(a) == RoundDouble(OneMinusExact(a), FALSE)

\* the float division a / 2. (exact: the exponent drops by one)
Half(a) ==
    Dy(0, [k \in LimbIx |->
             (a.f[k] \div 2)
             + (IF k = 1 THEN a.i ELSE a.f[k - 1] % 2) * (Base \div 2)])

\* a * m exactly, for a >= 0 and a natural number m
RECURSIVE MulCarry(_, _, _)
MulCarry(f, m, k) ==
    IF k > Limbs THEN 0 ELSE (f[k] * m + MulCarry(f, m, k + 1)) \div Base
MulSmall(a, m) ==
    Dy(a.i * m + MulCarry(a.f, m, 1),
       [k \in LimbIx |-> (a.f[k] * m + MulCarry(a.f, m, k + 1)) % Base])
DyAddInt(a, n) == Dy(a.i + n, a.f)

---------------------------------------------------------------------------
(* The module-level tables of correlation.py.                              *)

\* Python's None, and a function object
None == [k |-> "None"]
Func(name) == [k |-> "function", name |-> name]

Methods == {"kendall_tau", "spearman_rho", "pearson_r", "customized"}

corr_functions ==
    [m \in Methods |->
        CASE m = "kendall_tau"  -> Func("kendall_tau_scipy")
          [] m = "spearman_rho" -> Func("spearman_rho_scipy")
          [] m = "pearson_r"    -> Func("pearson_r_scipy")
          [] m = "customized"   -> None]

\* thresholds in hundredths: 0.8, 0.95, 1., 0.
param_corr_thres ==
    [m \in Methods |->
        CASE m = "kendall_tau"  -> 80
          [] m = "spearman_rho" -> 95
          [] m = "pearson_r"    -> 100
          [] m = "customized"   -> 0]

SeMethods == {"kendall_tau", "spearman_rho", "pearson_r"}

\* the numerator of the variance of z as a fraction <<n, d>>:
\* .437, 1 + r ** 2 / 2., 1 (r in hundredths)
se_numerator_func(m, r) ==
    CASE m = "kendall_tau"  -> <<437, 1000>>
      [] m = "spearman_rho" -> <<20000 + r * r, 20000>>
      [] m = "pearson_r"    -> <<1, 1>>

se_denominator_diff ==
    [m \in SeMethods |->
        CASE m = "kendall_tau"  -> 4
          [] m = "spearman_rho" -> 3
          [] m = "pearson_r"    -> 3]

Abs(n) == IF n < 0 THEN -n ELSE n

---------------------------------------------------------------------------
(* Values of the interval computation.  A bound is one of                  *)
(*   [k |-> "num", v |-> dyadic]   an exact number, in hundredths          *)
(*   [k |-> "nan"]                 the float NaN                           *)
(*   [k |-> "tanh", r, dir, w]     tanh(atanh(r) + dir * w) for a          *)
(*                                 positive finite half-width w            *)
(*   [k |-> "rt", r, off]          tanh(atanh(r)) as the floats give it:   *)
(*                                 r moved by off units in the last place  *)

Num(n)  == [k |-> "num", v |-> DyInt(n)]
NaN     == [k |-> "nan"]
PosInf  == [k |-> "inf"]
NegInf  == [k |-> "-inf"]
Zero    == [k |-> "zero"]

\* np.log((1 + r) / (1 - r)) / 2 on a numpy float
FisherZ(r) ==
    IF 100 - r = 0 THEN PosInf
    ELSE IF 100 + r = 0 THEN NegInf
    ELSE [k |-> "atanh", r |-> r]

\* np.sqrt(numerator / (sample_size - diff)): NaN for a negative quotient;
\* a zero divisor raises for the Python numerators of kendall_tau and
\* pearson_r and gives inf for the numpy numerator of spearman_rho
StdErr(m, r, n) ==
    LET d == n - se_denominator_diff[m]
        q == se_numerator_func(m, r)
    IN  IF d < 0 THEN NaN
        ELSE IF d = 0 THEN (IF m = "spearman_rho" THEN PosInf
                            ELSE [k |-> "ZeroDivisionError"])
        ELSE [k |-> "sqrt", num |-> q[1], den |-> q[2] * d]

HalfDy == BitDy(1)

\* norm_scipy.ppf(p) for p in [0.5, 1]
Ppf(p) ==
    IF p = HalfDy THEN Zero
    ELSE IF p = DyInt(1) THEN PosInf
    ELSE [k |-> "ppf", p |-> p]

\* norm_scipy.ppf(1 - alpha / 2.) * se
HalfWidth(q, s) ==
    IF s.k = "nan" THEN NaN
    ELSE IF q.k = "zero" THEN (IF s.k = "inf" THEN NaN ELSE Zero)
    ELSE IF q.k = "inf" \/ s.k = "inf" THEN PosInf
    ELSE [k |-> "pos", q |-> q.p, num |-> s.num, den |-> s.den]

\* z + dir * w
ZShift(zz, dir, w) ==
    IF w.k = "nan" THEN NaN
    ELSE IF w.k = "zero" THEN zz
    ELSE IF zz.k \in {"inf", "-inf"} THEN
        (IF w.k = "inf" /\ ((zz.k = "inf") # (dir = 1)) THEN NaN ELSE zz)
    ELSE IF w.k = "inf" THEN (IF dir = 1 THEN PosInf ELSE NegInf)
    ELSE [k |-> "shift", r |-> zz.r, dir |-> dir, w |-> w]

\* (np.exp(2 * zz) - 1) / (np.exp(2 * zz) + 1); off is the rounding of the
\* round trip through log and exp
InvFisher(zz, off) ==
    CASE zz.k = "nan"   -> NaN
      [] zz.k = "inf"   -> NaN
      [] zz.k = "-inf"  -> Num(-100)
      [] zz.k = "atanh" -> [k |-> "rt", r |-> zz.r, off |-> off]
      [] zz.k = "shift" -> [k |-> "tanh", r |-> zz.r, dir |-> zz.dir, w |-> zz.w]

\* bound <= c and c <= bound for the coefficient c the bound was built from
BoundLeqCoef(b, c) ==
    CASE b.k = "num"  -> DyLeq(b.v, DyInt(c))
      [] b.k = "nan"  -> FALSE
      [] b.k = "rt"   -> b.r < c \/ (b.r = c /\ b.off <= 0)
      [] b.k = "tanh" -> b.r < c \/ (b.r = c /\ b.dir = -1)
CoefLeqBound(c, b) ==
    CASE b.k = "num"  -> DyLeq(DyInt(c), b.v)
      [] b.k = "nan"  -> FALSE
      [] b.k = "rt"   -> c < b.r \/ (b.r = c /\ b.off >= 0)
      [] b.k = "tanh" -> c < b.r \/ (b.r = c /\ b.dir = 1)
\* lo <= hi for the two bounds of one call
BoundLeq(lo, hi) ==
    CASE lo.k = "nan" \/ hi.k = "nan"       -> FALSE
      [] lo.k = "num" /\ hi.k = "num"       -> DyLeq(lo.v, hi.v)
      [] lo.k = "rt" /\ hi.k = "rt"         -> lo.off <= hi.off
      [] lo.k = "tanh" /\ hi.k = "tanh"     -> lo.dir <= hi.dir
      [] OTHER                              -> FALSE

\* np.quantile(s, q), linear interpolation between the order statistics
\* around the virtual index q * (len(s) - 1)
Quantile(s, q) ==
    LET sorted == SortSeq(s, LAMBDA a, b : a < b)
        v      == MulSmall(q, Len(s) - 1)
    IN  IF v.i + 1 >= Len(s) THEN Num(sorted[Len(s)])
        ELSE LET a == sorted[v.i + 1]
                 b == sorted[v.i + 2]
             IN  [k |-> "num",
                  v |-> DyAddInt(MulSmall(Dy(0, v.f), b - a), a)]

\* b ** e, or some number above cap when b ** e is above cap
RECURSIVE SatPow(_, _, _)
SatPow(b, e, cap) ==
    IF e = 0 THEN 1
    ELSE LET r == SatPow(b, e - 1, cap) IN IF r > cap THEN r ELSE b * r

\* np.random.choice(np.arange(n), replace=True, size=(rows, n)) from the
\* state s of the random source: row k, position i (indices from 0) is a
\* digit of s in base n
RandomChoice(s, rows, n) ==
    [k \in 1..rows |->
        [i \in 1..n |-> (s \div SatPow(n, (k - 1) * n + (i - 1), s)) % n]]
\* the state of the random source after that call
RandomNext(s, rows, n) == s \div SatPow(n, rows * n, s)

\* x[new_idx]: fancy indexing of a 1-D array by an index matrix
Take(a, idx) == [k \in DOMAIN idx |-> [i \in DOMAIN idx[k] |-> a[idx[k][i] + 1]]]

---------------------------------------------------------------------------
(* Bounds of the model and the small sets the inputs are drawn from.       *)

\* largest sample size len(x)
MaxN == 4
\* largest bootstrap_samples
MaxB == 2
\* largest initial state of the random source, control-flow specifications
MaxSeed == 1
\* largest initial state of the random source, resampling specification
MaxSeedResample == 15

AllMethods == Methods \cup {"tau_c"}
CustomFuncs == {None, Func("tau_c_func")}

\* what the statistic function may return for a pair of samples:
\* <<coefficient, p-value>> in hundredths
StatResults ==
    {<<-100, 0>>, <<-80, 1>>, <<0, 99>>, <<50, 5>>, <<80, 1>>, <<95, 2>>,
     <<100, 0>>}

\* 2^-60 and 1 - 2^-53: the smallest and the largest alpha of the model
TinyAlpha == BitDy(60)
BelowOne == OneMinusExact(BitDy(Precision))

\* decimal literals n/100 of the calls
AlphaLiterals == {5, 10}
CiLiterals == {95, 90, 75}
alpha_default == Double(5, 100)

Min(a, b) == IF a < b THEN a ELSE b

---------------------------------------------------------------------------
(* State: the arguments and locals of corr, its outcome, and the external  *)
(* capabilities (random source, statistic function).                       *)

VARIABLES
    x, y, method, skip_ci, ci, bootstrap_samples, bootstrap,
    custom_corr_func, kwargs,       \* arguments, never assigned
    alpha,                          \* argument, assigned on line 117
    corr_func, corr_mean, p_value, sample_size,
    z, se, z_lower, z_upper,
    new_idx, bootstrap_x, bootstrap_y, bootstrap_corrs,
    corr_lower, corr_upper,
    pc,                             \* position in corr
    result,                         \* the returned tuple, None until return
    err,                            \* the exception raised, None if none
    rng,                            \* state of the shared random source
    draws,                          \* calls of np.random.choice so far
    memo,                           \* the statistic function's graph so far
    calls                           \* statistic function invocations so far

args == <<x, y, method, skip_ci, ci, bootstrap_samples, bootstrap,
          custom_corr_func, kwargs>>
normal_locals == <<z, se, z_lower, z_upper>>
boot_locals == <<new_idx, bootstrap_x, bootstrap_y, bootstrap_corrs>>
bounds_locals == <<corr_lower, corr_upper>>
stat_locals == <<corr_func, corr_mean, p_value>>
env == <<rng, draws, memo, calls>>
vars == <<args, alpha, stat_locals, sample_size, normal_locals, boot_locals,
          bounds_locals, pc, result, err, env>>

\* the sample pairs of size n
Data(n, rich) ==
    {<<[i \in 1..n |-> i], [i \in 1..n |-> (i * i) % 5]>>}
    \cup (IF rich THEN {<<[i \in 1..n |-> i % 2], [i \in 1..n |-> 10 * i]>>}
          ELSE {})

NoKwargs == << >>
SomeKwargs == [nan_policy |-> "omit"]

\* the state at the call of corr
InitWith(methods, funcs, skips, boots, alphas, cis, seedcap, rich, kws) ==
    /\ method \in methods
    /\ custom_corr_func \in funcs
    /\ skip_ci \in skips
    /\ bootstrap \in boots
    /\ alpha \in alphas
    /\ ci \in cis
    /\ kwargs \in kws
    /\ bootstrap_samples \in 1..MaxB
    /\ \E n \in 1..MaxN :
          /\ \E d \in Data(n, rich) : x = d[1] /\ y = d[2]
          /\ rng \in 0..Min(seedcap, SatPow(n, n * bootstrap_samples, seedcap) - 1)
    /\ corr_func = None /\ corr_mean = None /\ p_value = None
    /\ sample_size = None
    /\ z = None /\ se = None /\ z_lower = None /\ z_upper = None
    /\ new_idx = None /\ bootstrap_x = None /\ bootstrap_y = None
    /\ bootstrap_corrs = << >>
    /\ corr_lower = None /\ corr_upper = None
    /\ pc = "resolve" /\ result = None /\ err = None
    /\ draws = 0 /\ memo = << >> /\ calls = << >>

Init ==
    InitWith(AllMethods, CustomFuncs, BOOLEAN, BOOLEAN,
             {alpha_default}, {None, Double(95, 100)},
             MaxSeed, FALSE, {NoKwargs})

InitInterval ==
    InitWith({"kendall_tau", "spearman_rho", "customized"}, {Func("tau_c_func")},
             {FALSE}, BOOLEAN,
             {Double(a, 100) : a \in AlphaLiterals} \cup {TinyAlpha, BelowOne},
             {None} \cup {Double(c, 100) : c \in CiLiterals},
             MaxSeed, FALSE, {NoKwargs})

InitResample ==
    InitWith({"spearman_rho", "customized"}, {Func("tau_c_func")},
             {FALSE}, {FALSE}, {alpha_default}, {None},
             MaxSeedResample, TRUE, {NoKwargs, SomeKwargs})

Raise(kind) ==
    /\ err' = [kind |-> kind, at |-> pc]
    /\ pc' = "raised"

\* what corr_func may return for samples of the size of xs: any result for
\* a custom function; the scipy statistics give 1 or -1 for fewer than
\* three points (nan, outside the contract of a coefficient, is left out)
ResultsFor(xs) ==
    IF corr_func \in {corr_functions[m] : m \in SeMethods} /\ Len(xs) < 3
    THEN {r \in StatResults : Abs(r[1]) = 100}
    ELSE StatResults
\* the statistic function applied to (xs, ys): a deterministic external
\* function, so an argument pair seen before gets the result it got
StatOutcomes(xs, ys) ==
    IF <<xs, ys>> \in DOMAIN memo THEN {memo[<<xs, ys>>]} ELSE ResultsFor(xs)
Remember(xs, ys, r) ==
    [a \in DOMAIN memo \cup {<<xs, ys>>} |->
        IF a = <<xs, ys>> THEN r ELSE memo[a]]
Invocation(xs, ys) ==
    [f |-> corr_func, x |-> xs, y |-> ys, kwargs |-> kwargs]

---------------------------------------------------------------------------
(* The steps of corr.                                                      *)

\* Resolve with the test of the selector dropped: any supplied custom
\* function is used
Resolve_anyCustom ==
    /\ pc = "resolve"
    /\ IF custom_corr_func # None
       THEN corr_func' = custom_corr_func /\ pc' = "call" /\ err' = err
       ELSE IF method \in DOMAIN corr_functions
       THEN corr_func' = corr_functions[method] /\ pc' = "call" /\ err' = err
       ELSE corr_func' = corr_func /\ Raise("KeyError")
    /\ UNCHANGED <<args, alpha, corr_mean, p_value, sample_size, normal_locals,
                   boot_locals, bounds_locals, result, env>>

\* lines 99-108: resolve the statistic function
Resolve ==
    /\ pc = "resolve"
    /\ IF method = "customized" /\ custom_corr_func # None
       THEN corr_func' = custom_corr_func /\ pc' = "call" /\ err' = err
       ELSE IF method \in DOMAIN corr_functions
       THEN corr_func' = corr_functions[method] /\ pc' = "call" /\ err' = err
       ELSE corr_func' = corr_func /\ Raise("KeyError")
    /\ UNCHANGED <<args, alpha, corr_mean, p_value, sample_size, normal_locals,
                   boot_locals, bounds_locals, result, env>>

\* line 110: the statistic of the full sample; calling None is a TypeError
CallFull ==
    /\ pc = "call"
    /\ IF corr_func = None
       THEN /\ Raise("TypeError")
            /\ UNCHANGED <<corr_mean, p_value, memo, calls>>
       ELSE \E r \in StatOutcomes(x, y) :
            /\ corr_mean' = r[1]
            /\ p_value' = r[2]
            /\ memo' = Remember(x, y, r)
            /\ calls' = Append(calls, Invocation(x, y))
            /\ pc' = "skip_check"
            /\ err' = err
    /\ UNCHANGED <<args, alpha, corr_func, sample_size, normal_locals,
                   boot_locals, bounds_locals, result, rng, draws>>

\* CheckSkip with the early return lost
CheckSkip_ignored ==
    /\ pc = "skip_check"
    /\ result' = result /\ pc' = "degenerate_check"
    /\ UNCHANGED <<args, alpha, stat_locals, sample_size, normal_locals,
                   boot_locals, bounds_locals, err, env>>

\* lines 112-113
CheckSkip ==
    /\ pc = "skip_check"
    /\ IF skip_ci
       THEN result' = <<corr_mean, None, None, p_value>> /\ pc' = "done"
       ELSE result' = result /\ pc' = "degenerate_check"
    /\ UNCHANGED <<args, alpha, stat_locals, sample_size, normal_locals,
                   boot_locals, bounds_locals, err, env>>

\* CheckDegenerate testing abs(corr_mean) > 1
CheckDegenerate_greater ==
    /\ pc = "degenerate_check"
    /\ IF Abs(corr_mean) > 100
       THEN /\ result' = <<corr_mean, Num(corr_mean), Num(corr_mean), p_value>>
            /\ pc' = "done"
       ELSE result' = result /\ pc' = "set_alpha"
    /\ UNCHANGED <<args, alpha, stat_locals, sample_size, normal_locals,
                   boot_locals, bounds_locals, err, env>>

\* lines 114-115
CheckDegenerate ==
    /\ pc = "degenerate_check"
    /\ IF Abs(corr_mean) = 100
       THEN /\ result' = <<corr_mean, Num(corr_mean), Num(corr_mean), p_value>>
            /\ pc' = "done"
       ELSE result' = result /\ pc' = "set_alpha"
    /\ UNCHANGED <<args, alpha, stat_locals, sample_size, normal_locals,
                   boot_locals, bounds_locals, err, env>>

\* SetAlpha with ci ignored
SetAlpha_keep ==
    /\ pc = "set_alpha"
    /\ alpha' = alpha
    /\ pc' = "choose_path"
    /\ UNCHANGED <<args, stat_locals, sample_size, normal_locals, boot_locals,
                   bounds_locals, result, err, env>>

\* lines 116-117
SetAlpha ==
    /\ pc = "set_alpha"
    /\ alpha' = IF ci # None THEN OneMinus(ci) ELSE alpha
    /\ pc' = "choose_path"
    /\ UNCHANGED <<args, stat_locals, sample_size, normal_locals, boot_locals,
                   bounds_locals, result, err, env>>

\* UseNormalApprox with <= for <
UseNormalApprox_le(m, boot, r) == (~boot) /\ Abs(r) <= param_corr_thres[m]

\* line 123: the condition of the normal approximation
UseNormalApprox(m, boot, r) == (~boot) /\ Abs(r) < param_corr_thres[m]

\* lines 119-123
ChoosePath ==
    /\ pc = "choose_path"
    /\ sample_size' = Len(x)
    /\ pc' = IF UseNormalApprox(method, bootstrap, corr_mean)
             THEN "transform" ELSE "draw"
    /\ UNCHANGED <<args, alpha, stat_locals, normal_locals, boot_locals,
                   bounds_locals, result, err, env>>

\* Transform hoisted above the degenerate check
Transform_hoisted ==
    /\ pc = "degenerate_check"
    /\ z = None
    /\ z' = FisherZ(corr_mean)
    /\ pc' = pc
    /\ UNCHANGED <<args, alpha, stat_locals, sample_size, se, z_lower, z_upper,
                   boot_locals, bounds_locals, result, err, env>>

\* line 128
Transform ==
    /\ pc = "transform"
    /\ z' = FisherZ(corr_mean)
    /\ pc' = "stderr"
    /\ UNCHANGED <<args, alpha, stat_locals, sample_size, se, z_lower, z_upper,
                   boot_locals, bounds_locals, result, err, env>>

\* lines 130-131
StandardError ==
    /\ pc = "stderr"
    /\ IF method \notin SeMethods
       THEN Raise("KeyError") /\ se' = se
       ELSE LET s == StdErr(method, corr_mean, sample_size)
            IN  IF s.k = "ZeroDivisionError"
                THEN Raise("ZeroDivisionError") /\ se' = se
                ELSE se' = s /\ pc' = "zbounds" /\ err' = err
    /\ UNCHANGED <<args, alpha, stat_locals, sample_size, z, z_lower, z_upper,
                   boot_locals, bounds_locals, result, env>>

\* ZBounds with the two signs exchanged
ZBounds_swapped ==
    /\ pc = "zbounds"
    /\ LET w == HalfWidth(Ppf(OneMinus(Half(alpha))), se)
       IN  /\ z_lower' = ZShift(z, 1, w)
           /\ z_upper' = ZShift(z, -1, w)
    /\ pc' = "invert"
    /\ UNCHANGED <<args, alpha, stat_locals, sample_size, z, se, boot_locals,
                   bounds_locals, result, err, env>>

\* lines 132-133
ZBounds ==
    /\ pc = "zbounds"
    /\ LET w == HalfWidth(Ppf(OneMinus(Half(alpha))), se)
       IN  /\ z_lower' = ZShift(z, -1, w)
           /\ z_upper' = ZShift(z, 1, w)
    /\ pc' = "invert"
    /\ UNCHANGED <<args, alpha, stat_locals, sample_size, z, se, boot_locals,
                   bounds_locals, result, err, env>>

\* lines 135-136
Invert ==
    /\ pc = "invert"
    /\ \E off \in {-1, 0, 1} :
          /\ corr_lower' = InvFisher(z_lower, off)
          /\ corr_upper' = InvFisher(z_upper, off)
    /\ pc' = "return"
    /\ UNCHANGED <<args, alpha, stat_locals, sample_size, normal_locals,
                   boot_locals, result, err, env>>

\* Draw with y indexed by an index matrix of its own
Draw_unpaired ==
    /\ pc = "draw"
    /\ new_idx' = RandomChoice(rng, bootstrap_samples, sample_size)
    /\ rng' = RandomNext(rng, bootstrap_samples, sample_size)
    /\ draws' = draws + 1
    /\ bootstrap_x' = Take(x, new_idx')
    /\ bootstrap_y' = Take(y, RandomChoice(rng + 1, bootstrap_samples, sample_size))
    /\ pc' = "replicate"
    /\ UNCHANGED <<args, alpha, stat_locals, sample_size, normal_locals,
                   bootstrap_corrs, bounds_locals, result, err, memo, calls>>

\* lines 142-144
Draw ==
    /\ pc = "draw"
    /\ new_idx' = RandomChoice(rng, bootstrap_samples, sample_size)
    /\ rng' = RandomNext(rng, bootstrap_samples, sample_size)
    /\ draws' = draws + 1
    /\ bootstrap_x' = Take(x, new_idx')
    /\ bootstrap_y' = Take(y, new_idx')
    /\ pc' = "replicate"
    /\ UNCHANGED <<args, alpha, stat_locals, sample_size, normal_locals,
                   bootstrap_corrs, bounds_locals, result, err, memo, calls>>

\* lines 145-146: one iteration of the comprehension
Replicate ==
    /\ pc = "replicate"
    /\ LET i == Len(bootstrap_corrs) + 1
       IN  \E r \in StatOutcomes(bootstrap_x[i], bootstrap_y[i]) :
             /\ bootstrap_corrs' = Append(bootstrap_corrs, r[1])
             /\ memo' = Remember(bootstrap_x[i], bootstrap_y[i], r)
             /\ calls' = Append(calls, Invocation(bootstrap_x[i], bootstrap_y[i]))
             /\ pc' = IF i = bootstrap_samples THEN "quantiles" ELSE "replicate"
    /\ UNCHANGED <<args, alpha, stat_locals, sample_size, normal_locals,
                   new_idx, bootstrap_x, bootstrap_y, bounds_locals, result,
                   err, rng, draws>>

\* lines 147-148
Quantiles ==
    /\ pc = "quantiles"
    /\ corr_lower' = Quantile(bootstrap_corrs, Half(alpha))
    /\ corr_upper' = Quantile(bootstrap_corrs, OneMinus(Half(alpha)))
    /\ pc' = "return"
    /\ UNCHANGED <<args, alpha, stat_locals, sample_size, normal_locals,
                   boot_locals, result, err, env>>

\* line 150
Return ==
    /\ pc = "return"
    /\ result' = <<corr_mean, corr_lower, corr_upper, p_value>>
    /\ pc' = "done"
    /\ UNCHANGED <<args, alpha, stat_locals, sample_size, normal_locals,
                   boot_locals, bounds_locals, err, env>>

Next ==
    \/ Resolve \/ CallFull \/ CheckSkip \/ CheckDegenerate \/ SetAlpha
    \/ ChoosePath \/ Transform \/ StandardError \/ ZBounds \/ Invert
    \/ Draw \/ Replicate \/ Quantiles \/ Return

Spec == Init /\ [][Next]_vars
SpecInterval == InitInterval /\ [][Next]_vars
SpecResample == InitResample /\ [][Next]_vars

---------------------------------------------------------------------------
(* Where a call stands.                                                    *)

\* the statistic of the full sample has been computed
Called == Len(calls) >= 1
FullResult == memo[<<x, y>>]
\* the call went past the skip and degenerate returns
PastReturns ==
    /\ Called
    /\ pc \notin {"skip_check", "degenerate_check"}
    /\ ~skip_ci
    /\ Abs(corr_mean) # 100
\* the path has been chosen (line 123 evaluated)
PathChosen == PastReturns /\ pc \notin {"set_alpha", "choose_path"}
OnNormalPath ==
    PathChosen /\ (pc \in {"transform", "stderr"} \/ z # None
                   \/ (pc = "raised" /\ err.at = "stderr"))
OnResamplingPath == PathChosen /\ (pc = "draw" \/ draws > 0)
Returned == pc = "done"
ReturnedBounds == Returned /\ PastReturns

---------------------------------------------------------------------------
(* C1 *)

\* C1 as stated: every call with skip_ci false that returns with
\* |coefficient| # 1 has lower <= coefficient <= upper, on both paths, for
\* every alpha and every set of replicate coefficients.
C1_BoundsBracketCoefficient ==
    ReturnedBounds =>
        /\ BoundLeqCoef(result[2], result[1])
        /\ CoefLeqBound(result[1], result[3])

\* C1 amended: on the normal-approximation path the bounds bracket the
\* coefficient when the half-width ppf(1 - alpha/2) * se is positive and
\* finite (sample_size above the method's offset, 0.5 < 1 - alpha/2 < 1 as
\* floats), and both bounds are NaN when sample_size is below the offset;
\* on the resampling path lower <= upper and both bounds lie between the
\* smallest and the largest replicate coefficient.
C1_BoundsAmended ==
    ReturnedBounds =>
        IF OnNormalPath
        THEN LET d == sample_size - se_denominator_diff[method]
                 p == OneMinus(Half(alpha))
             IN  /\ (d > 0 /\ p # HalfDy /\ p # DyInt(1)) =>
                        /\ BoundLeqCoef(result[2], result[1])
                        /\ CoefLeqBound(result[1], result[3])
                        /\ result[2] # result[3]
                 /\ d < 0 => (result[2] = NaN /\ result[3] = NaN)
        ELSE /\ BoundLeq(result[2], result[3])
             /\ \E j \in DOMAIN bootstrap_corrs :
                    BoundLeq(Num(bootstrap_corrs[j]), result[2])
             /\ \E j \in DOMAIN bootstrap_corrs :
                    BoundLeq(result[3], Num(bootstrap_corrs[j]))

\* a call returned bounds around the coefficient from the normal
\* approximation, and another from two different replicate coefficients
C1_Witness ==
    /\ ReturnedBounds
    /\ \/ (OnNormalPath /\ result[2].k = "tanh" /\ result[3].k = "tanh")
       \/ (OnResamplingPath /\ result[2] # result[3]
           /\ ~CoefLeqBound(result[1], result[3]))

---------------------------------------------------------------------------
(* C2 *)

\* C2 as stated: method 'customized' with custom_corr_func None fails with
\* the error of an unrecognized selector (KeyError), raised during method
\* resolution, before any attempt to invoke a statistic function.
C2_CustomWithoutFunctionIsInvalidMethod ==
    (method = "customized" /\ custom_corr_func = None /\ pc = "raised") =>
        err = [kind |-> "KeyError", at |-> "resolve"]

---------------------------------------------------------------------------
(* C3 *)

\* C3: a method outside the four selectors fails with KeyError during
\* resolution, with or without a custom_corr_func, before any statistic
\* function is invoked and before any random draw.
C3_UnknownMethodRaises ==
    method \notin Methods =>
        /\ pc \in {"resolve", "raised"}
        /\ pc = "raised" =>
              /\ err = [kind |-> "KeyError", at |-> "resolve"]
              /\ calls = << >>
              /\ draws = 0

\* an unrecognized method was rejected although a custom function was given
C3_Witness ==
    /\ pc = "raised"
    /\ method = "tau_c"
    /\ custom_corr_func # None

---------------------------------------------------------------------------
(* C4 *)

\* C4: a call with skip_ci true returns (coefficient, None, None, p_value),
\* also when |coefficient| = 1, after exactly one invocation of the
\* statistic function, no random draw and no interval computation; and
\* every call that returns, skipped or not, returns the coefficient and
\* the p-value the statistic function gives for the full sample.
C4_SkipConsistency ==
    Returned =>
        /\ result[1] = FullResult[1]
        /\ result[4] = FullResult[2]
        /\ skip_ci =>
              /\ result[2] = None /\ result[3] = None
              /\ Len(calls) = 1
              /\ draws = 0
              /\ z = None /\ se = None /\ bootstrap_corrs = << >>
              /\ corr_lower = None /\ corr_upper = None

\* a skipped call returned for a coefficient of -1 or 1
C4_Witness ==
    /\ Returned
    /\ skip_ci
    /\ Abs(result[1]) = 100
    /\ result[2] = None

---------------------------------------------------------------------------
(* C5 *)

\* the bounds of the call with ci null and alpha = a, everything else (path,
\* coefficient, standard error, replicate coefficients, rounding) as here
RefBounds(a, off) ==
    IF OnNormalPath
    THEN LET w == HalfWidth(Ppf(OneMinus(Half(a))), se)
         IN  <<InvFisher(ZShift(z, -1, w), off), InvFisher(ZShift(z, 1, w), off)>>
    ELSE <<Quantile(bootstrap_corrs, Half(a)),
           Quantile(bootstrap_corrs, OneMinus(Half(a)))>>
SameBoundsAs(a) ==
    \E off \in {-1, 0, 1} : <<result[2], result[3]>> = RefBounds(a, off)

\* C5 as stated: a call with ci = c/100 returns the bounds of the call with
\* ci null and alpha the decimal 1 - c/100 (ci = 0.95 like alpha = 0.05).
C5_CiEqualsDecimalAlpha ==
    ReturnedBounds =>
        \A c \in CiLiterals :
            ci = Double(c, 100) => SameBoundsAs(Double(100 - c, 100))

\* C5 amended: when ci is provided the passed alpha is ignored and the call
\* returns the bounds of the call with ci null and alpha the float 1 - ci
\* (for ci = 0.95 the float 0.050000000000000044, which is not 0.05).
C5_CiEqualsFloatAlpha ==
    (ReturnedBounds /\ ci # None) => SameBoundsAs(OneMinus(ci))

\* a call with ci = 0.95 returned resampling bounds between two different
\* replicate coefficients
C5_Witness ==
    /\ ReturnedBounds
    /\ ci = Double(95, 100)
    /\ OnResamplingPath
    /\ result[2] # result[3]

---------------------------------------------------------------------------
(* C6 *)

\* C6: with skip_ci false and a full-sample coefficient of 1 or -1 the call
\* returns (coefficient, coefficient, coefficient, p_value) for every
\* method, bootstrap flag and alpha/ci, draws no resample and invokes the
\* statistic function exactly once.
C6_DegenerateCollapse ==
    (Called /\ ~skip_ci /\ Abs(FullResult[1]) = 100) =>
        /\ pc \in {"skip_check", "degenerate_check", "done"}
        /\ Len(calls) = 1
        /\ draws = 0
        /\ Returned =>
              result = <<FullResult[1], Num(FullResult[1]),
                         Num(FullResult[1]), FullResult[2]>>

\* a call with bootstrap requested returned the collapsed interval at -1
C6_Witness ==
    /\ Returned
    /\ ~skip_ci
    /\ bootstrap
    /\ result[1] = -100
    /\ result[2] = Num(-100)

---------------------------------------------------------------------------
(* C7 *)

---------------------------------------------------------------------------
(* C8 *)

\* C8: on the resampling path there are bootstrap_samples index rows of
\* size n over 0..n-1; position i of replicate k of x and of y comes from
\* the same original index; the statistic function is invoked once per
\* replicate, on that pair, with the keyword arguments of the full-sample
\* call; the coefficient of each result is what is recorded; the quantiles
\* are taken after all replicates.
C8_PairedResampling ==
    draws > 0 =>
        /\ draws = 1
        /\ DOMAIN new_idx = 1..bootstrap_samples
        /\ \A k \in 1..bootstrap_samples :
              /\ DOMAIN new_idx[k] = 1..Len(x)
              /\ \A i \in 1..Len(x) :
                    /\ new_idx[k][i] \in 0..(Len(x) - 1)
                    /\ bootstrap_x[k][i] = x[new_idx[k][i] + 1]
                    /\ bootstrap_y[k][i] = y[new_idx[k][i] + 1]
        /\ Len(bootstrap_corrs) <= bootstrap_samples
        /\ Len(calls) = 1 + Len(bootstrap_corrs)
        /\ calls[1] = [f |-> corr_func, x |-> x, y |-> y, kwargs |-> kwargs]
        /\ \A k \in 1..Len(bootstrap_corrs) :
              /\ calls[k + 1] = [f |-> corr_func, x |-> bootstrap_x[k],
                                 y |-> bootstrap_y[k], kwargs |-> kwargs]
              /\ bootstrap_corrs[k] = memo[<<bootstrap_x[k], bootstrap_y[k]>>][1]
        /\ corr_lower # None => Len(bootstrap_corrs) = bootstrap_samples

\* a call with keyword arguments returned after two replicates of a
\* two-point sample drawn from different index rows
C8_Witness ==
    /\ Returned
    /\ draws = 1
    /\ kwargs = SomeKwargs
    /\ new_idx = <<<<1, 0>>, <<1, 1>>>>
    /\ x = <<1, 0>>
    /\ Len(calls) = 3

---------------------------------------------------------------------------
(* C9 *)

\* C9: whenever the transform z = 0.5 * ln((1 + r) / (1 - r)) has been
\* evaluated, 1 - r and 1 + r are nonzero, for every method.
C9_TransformDenominatorsNonzero ==
    z # None => (100 - corr_mean # 0 /\ 100 + corr_mean # 0)

\* the transform was evaluated for pearson_r (threshold 1.0) at 0.95
C9_Witness ==
    /\ z # None
    /\ method = "pearson_r"
    /\ corr_mean = 95

---------------------------------------------------------------------------
(* C10 *)

\* C10 as stated: whenever the standard error of the normal approximation
\* is computed, the divisor sample_size - denom_offset is strictly positive.
C10_StandardErrorDivisorPositive ==
    (se # None \/ err = [kind |-> "ZeroDivisionError", at |-> "stderr"]) =>
        sample_size - se_denominator_diff[method] > 0

=============================================================================
